---- MODULE Spec2Model ----
(***************************************************************************)
(* Scorer / ScorerState protocol of src/translator/scorers.h.              *)
(*                                                                         *)
(* Four specifications share this module:                                  *)
(*   Spec         the heuristic scorers WordPenalty and UnseenWordPenalty  *)
(*                (startState, step) and WordPenaltyState::breakDown;      *)
(*   SpecWrap     neural scorers (ScorerWrapper) called one at a time on   *)
(*                one shared ExpressionGraph;                              *)
(*   SpecPar      the step calls of the neural scorers of one beam-search  *)
(*                iteration run by parallel threads on the shared graph;   *)
(*   SpecFactory  createScorers / scorerByType.                            *)
(*                                                                         *)
(* Conventions.  A std::vector or tensor of n entries is a sequence of     *)
(* length n; C++ index i is position i + 1.  Ptr<T> is an index into a     *)
(* heap sequence, Null is the empty pointer.  Float weights are counted in *)
(* tenths (1.f is 10).  Undefined behaviour (an access past the end of a   *)
(* std::vector) is a choice between the process dying and the access       *)
(* landing outside the object.                                             *)
(***************************************************************************)
EXTENDS Integers, Sequences, FiniteSets, TLC

VARIABLES
  wp,        \* the WordPenalty scorer's fields
  uwp,       \* the UnseenWordPenalty scorer's fields
  nodes,     \* constant nodes of the ExpressionGraph (Expr = index)
  hstates,   \* heap of WordPenaltyState objects
  born,      \* per WordPenaltyState: its maker and its distribution when made
  activeNs,  \* the graph's active parameter namespace (switchParams)
  dstates,   \* heap of the models' DecoderState objects
  wstates,   \* heap of ScorerWrapperState objects
  pc,        \* SpecPar: each thread's position inside ScorerWrapper::step
  config,    \* SpecFactory: the Config handed to createScorers
  scorers,   \* SpecFactory: the vector createScorers returned
  warnings,  \* SpecFactory: models whose settings were logged as missing
  crashed,   \* the process died (undefined behaviour, or an uncaught fault)
  last       \* the most recent call: its arguments and what it returned

vars == <<wp, uwp, nodes, hstates, born, activeNs, dstates, wstates,
          pc, config, scorers, warnings, crashed, last>>

heurVars == <<wp, uwp, nodes, hstates, born>>
wrapVars == <<activeNs, dstates, wstates>>
factVars == <<config, scorers, warnings>>

----------------------------------------------------------------------------
(* Bounds *)

MaxDim == 4       \* vocabulary dimensions 1 .. MaxDim
MaxId == 3        \* source word ids 0 .. MaxId
MaxSrcLen == 2    \* words per source stream of a batch
MaxStates == 2    \* WordPenaltyState objects allocated in one run
MaxSteps == 2     \* consecutive step calls that are counted
MaxIndex == 5     \* indices handed to breakDown are 0 .. MaxIndex

(* Program constants *)

EOS == 2            \* the id p[2] that both heuristic scorers always free
WordPenaltyFill == 1       \* std::vector<float> p(dimVocab_, 1)
UnseenPenaltyFill == -1    \* std::vector<float> p(dimVocab_, -1)
DefaultWeight == 10        \* weights(models.size(), 1.f), in tenths

Null == 0
NoCall == [op |-> "none"]

----------------------------------------------------------------------------
(* Generic helpers *)

SeqsUpTo(S, n) == UNION {[1..k -> S] : k \in 0..n}

Range(s) == {s[k] : k \in 1..Len(s)}

Min(a, b) == IF a <= b THEN a ELSE b

RECURSIVE Fill(_, _)
Fill(n, v) == IF n <= 0 THEN <<>> ELSE Append(Fill(n - 1, v), v)

\* p[i] = v on a std::vector: in range it stores; past the end the store
\* lands outside the vector's elements and the vector keeps its contents.
Store(p, i, v) == IF i < Len(p) THEN [p EXCEPT ![i + 1] = v] ELSE p

RECURSIVE StoreAll(_, _, _)
StoreAll(p, idx, v) ==
  IF idx = <<>> THEN p
  ELSE StoreAll(Store(p, Head(idx), v), Tail(idx), v)

OutOfRange(n, idx) == {k \in 1..Len(idx) : idx[k] >= n}

\* A float read from outside its buffer is whatever 32 bits lie there.
\* Every bit pattern is a float of exactly one sign and one IEEE-754 class
\* (fpclassify), and the model keeps those two: 0.5, 4.2 and 2.5 are
\* [sign 0, normal], 7.00649e-45 is [sign 0, subnormal], -1.0 is
\* [sign 1, normal].  Floats the program computes itself stay numbers.
FloatKinds == {"zero", "subnormal", "normal", "infinite", "nan"}
StrayFloats == [sign : {0, 1}, kind : FloatKinds]

\* What a run of stores can do: all in range, or undefined behaviour.
Outcomes(n, idx) ==
  IF OutOfRange(n, idx) = {} THEN {"ok"} ELSE {"crash", "stray"}

\* A batch: one source stream per configured input, each a vector of ids.
\* The batches of the model have one input stream.
Streams == SeqsUpTo(0..MaxId, MaxSrcLen)
Batches == {<<s>> : s \in Streams}

----------------------------------------------------------------------------
(* WordPenalty / UnseenWordPenalty / WordPenaltyState *)

\* graph->constant({1, dimVocab_}, init = from_vector(p))
Constant(d, p) == [shape |-> <<1, d>>, val |-> p]

\* Indices WordPenalty::startState stores to, in program order.
WordPenalty_writes(self, batch) == <<0, EOS>>

\* The vector p that WordPenalty::startState builds.
WordPenalty_p(self, batch) ==
  StoreAll(Fill(self.dimVocab, WordPenaltyFill), WordPenalty_writes(self, batch), 0)

\* Indices UnseenWordPenalty::startState stores to, in program order.
UnseenWordPenalty_writes(self, batch) == batch[self.batchIndex + 1] \o <<EOS>>

\* The vector p that UnseenWordPenalty::startState builds.
UnseenWordPenalty_p(self, batch) ==
  StoreAll(Fill(self.dimVocab, UnseenPenaltyFill),
           UnseenWordPenalty_writes(self, batch), 0)

\* WordPenaltyState::getProbs()->val()
Dist(st) == nodes[hstates[st].penalties].val

\* The index breakDown reads when the modulo is left out, as in the base
\* class ScorerState::breakDown.
BreakDownIndex_noModulo(st, i) == i

\* WordPenaltyState::breakDown reads get(i % dimVocab_)
WordPenaltyState_breakDownIndex(st, i) == i % st.dimVocab

\* A step that builds a new WordPenaltyState over the scorer's current
\* penalties_ field instead of handing back its argument.
Step_rebuilt(self, st, heap) ==
  IF self.penalties = Null THEN [ret |-> st, heap |-> heap]
  ELSE [ret |-> Len(heap) + 1,
        heap |-> Append(heap, [dimVocab |-> self.dimVocab,
                               penalties |-> self.penalties])]

\* WordPenalty::step and UnseenWordPenalty::step: `return state;`, the
\* returned pointer and the heap of states after the call.
Step_result(self, st, heap) == [ret |-> st, heap |-> heap]

\* Both scorers are constructed with the decoder's one target vocabulary
\* dimension; the UnseenWordPenalty reads input stream 0.
HeurInit ==
  /\ \E d \in 1..MaxDim :
       /\ wp = [name |-> "WP", weight |-> DefaultWeight, dimVocab |-> d,
                penalties |-> Null]
       /\ uwp = [name |-> "UWP", weight |-> DefaultWeight, dimVocab |-> d,
                 batchIndex |-> 0, penalties |-> Null]
  /\ nodes = <<>>
  /\ hstates = <<>>
  /\ born = <<>>

IdleWrap ==
  /\ activeNs = "default"
  /\ dstates = <<>>
  /\ wstates = <<>>
  /\ pc = <<>>

IdleFactory ==
  /\ config = [models |-> <<>>]
  /\ scorers = <<>>
  /\ warnings = <<>>

Init ==
  /\ HeurInit
  /\ IdleWrap
  /\ IdleFactory
  /\ crashed = FALSE
  /\ last = NoCall

\* The tail of both startState bodies: the constant node, the scorer's
\* penalties_ field, the new WordPenaltyState and the returned pointer.
StartStateTail(who, self, batch, p, writes, outcome) ==
  IF outcome = "crash"
  THEN /\ crashed' = TRUE
       /\ last' = [op |-> "startState", scorer |-> who, batch |-> batch,
                   dimVocab |-> self.dimVocab, writes |-> writes,
                   ret |-> Null]
       /\ UNCHANGED heurVars
  ELSE /\ nodes' = Append(nodes, Constant(self.dimVocab, p))
       /\ hstates' = Append(hstates, [dimVocab |-> self.dimVocab,
                                      penalties |-> Len(nodes) + 1])
       /\ born' = Append(born, [scorer |-> who, dist |-> p])
       /\ IF who = "WP"
          THEN /\ wp' = [wp EXCEPT !.penalties = Len(nodes) + 1]
               /\ uwp' = uwp
          ELSE /\ uwp' = [uwp EXCEPT !.penalties = Len(nodes) + 1]
               /\ wp' = wp
       /\ last' = [op |-> "startState", scorer |-> who, batch |-> batch,
                   dimVocab |-> self.dimVocab, writes |-> writes,
                   ret |-> Len(hstates) + 1]
       /\ crashed' = crashed

WordPenalty_startState(batch) ==
  /\ ~crashed
  /\ Len(hstates) < MaxStates
  /\ \E outcome \in Outcomes(wp.dimVocab, WordPenalty_writes(wp, batch)) :
       StartStateTail("WP", wp, batch, WordPenalty_p(wp, batch),
                      WordPenalty_writes(wp, batch), outcome)
  /\ UNCHANGED <<wrapVars, pc, factVars>>

UnseenWordPenalty_startState(batch) ==
  /\ ~crashed
  /\ Len(hstates) < MaxStates
  /\ \E outcome \in Outcomes(uwp.dimVocab, UnseenWordPenalty_writes(uwp, batch)) :
       StartStateTail("UWP", uwp, batch, UnseenWordPenalty_p(uwp, batch),
                      UnseenWordPenalty_writes(uwp, batch), outcome)
  /\ UNCHANGED <<wrapVars, pc, factVars>>

\* How many consecutive step calls on st the call being made is.
StepCount(who, st) ==
  IF last.op = "step" /\ last.scorer = who /\ last.ret = st
  THEN last.n + 1 ELSE 1

\* A step of either heuristic scorer on any state the driver holds.
HeurStep(who, self, st, H, E) ==
  /\ ~crashed
  /\ st \in 1..Len(hstates)
  /\ StepCount(who, st) <= MaxSteps
  /\ LET r == Step_result(self, st, hstates) IN
       /\ hstates' = r.heap
       /\ born' = IF Len(r.heap) > Len(hstates)
                  THEN Append(born, [scorer |-> who,
                                     dist |-> nodes[r.heap[r.ret].penalties].val])
                  ELSE born
       /\ last' = [op |-> "step", scorer |-> who, state |-> st, ret |-> r.ret,
                   n |-> StepCount(who, st)]
  /\ UNCHANGED <<wp, uwp, nodes, wrapVars, pc, factVars, crashed>>

WordPenalty_step(st, H, E) == HeurStep("WP", wp, st, H, E)

UnseenWordPenalty_step(st, H, E) == HeurStep("UWP", uwp, st, H, E)

\* What a read past the end of a tensor can produce.
FloatVals == StrayFloats

\* WordPenaltyState::breakDown(i): getProbs()->val()->get(i % dimVocab_).
\* A read past the end of the tensor is undefined behaviour.
WordPenaltyState_breakDown(st, i) ==
  /\ ~crashed
  /\ st \in 1..Len(hstates)
  /\ LET idx == WordPenaltyState_breakDownIndex(hstates[st], i) IN
       IF idx < Len(Dist(st))
       THEN /\ last' = [op |-> "breakDown", state |-> st, i |-> i, idx |-> idx,
                        ret |-> Dist(st)[idx + 1]]
            /\ crashed' = crashed
       ELSE \/ /\ crashed' = TRUE
               /\ last' = [op |-> "breakDown", state |-> st, i |-> i,
                           idx |-> idx, ret |-> Null]
            \/ /\ crashed' = crashed
               /\ \E v \in FloatVals :
                    last' = [op |-> "breakDown", state |-> st, i |-> i,
                             idx |-> idx, ret |-> v]
  /\ UNCHANGED <<heurVars, wrapVars, pc, factVars>>

\* The driver's hypothesisIndices / embeddingIndices, of equal length.
IndexLists == SeqsUpTo({0}, 1)
IndexPairs == {he \in IndexLists \X IndexLists : Len(he[1]) = Len(he[2])}

Next ==
  \/ \E b \in Batches : WordPenalty_startState(b)
  \/ \E b \in Batches : UnseenWordPenalty_startState(b)
  \/ \E st \in 1..MaxStates, he \in IndexPairs :
       WordPenalty_step(st, he[1], he[2])
  \/ \E st \in 1..MaxStates, he \in IndexPairs :
       UnseenWordPenalty_step(st, he[1], he[2])
  \/ \E st \in 1..MaxStates, i \in 0..MaxIndex : WordPenaltyState_breakDown(st, i)

Spec == Init /\ [][Next]_vars

----------------------------------------------------------------------------
(* Properties of the heuristic scorers, checked under Spec *)

\* The source id set V of the batch of the latest startState call.
LastV == Range(last.batch[uwp.batchIndex + 1])

IsStart(who) == last.op = "startState" /\ last.scorer = who

\* C1: every UnseenWordPenalty::startState call, for every dimVocab and
\* every batch, returns a state whose distribution has dimVocab entries,
\* entry i being 0 for every i in V \cup {2} and -1 for every other i.
C1_CoverageDistribution ==
  IsStart("UWP") =>
    /\ last.ret /= Null
    /\ Len(Dist(last.ret)) = uwp.dimVocab
    /\ \A i \in LastV \cup {EOS} :
         i < Len(Dist(last.ret)) /\ Dist(last.ret)[i + 1] = 0
    /\ \A i \in (0..(uwp.dimVocab - 1)) \ (LastV \cup {EOS}) :
         Dist(last.ret)[i + 1] = UnseenPenaltyFill

\* C1 restricted to the calls all of whose stores are in range: the
\* distribution is the claimed one, whatever earlier calls left behind.
C1_CoverageDistributionInRange ==
  (IsStart("UWP") /\ OutOfRange(last.dimVocab, last.writes) = {}) =>
    /\ last.ret /= Null
    /\ Len(Dist(last.ret)) = uwp.dimVocab
    /\ \A i \in 0..(uwp.dimVocab - 1) :
         Dist(last.ret)[i + 1] =
           IF i \in LastV \cup {EOS} THEN 0 ELSE UnseenPenaltyFill

\* C2: every WordPenalty::startState call returns a distribution of d
\* entries in which ids 0 and 2 score 0 and every other id scores 1, and
\* all distributions the scorer has produced are identical.
C2_StaticDistribution ==
  IsStart("WP") =>
    /\ last.ret /= Null
    /\ Len(Dist(last.ret)) = wp.dimVocab
    /\ \A i \in {0, EOS} :
         i < Len(Dist(last.ret)) /\ Dist(last.ret)[i + 1] = 0
    /\ \A i \in (0..(wp.dimVocab - 1)) \ {0, EOS} :
         Dist(last.ret)[i + 1] = WordPenaltyFill
    /\ \A st \in 1..Len(hstates) :
         born[st].scorer = "WP" => Dist(st) = Dist(last.ret)

\* C2 restricted to dimensions that hold ids 0 and 2.
C2_StaticDistributionInRange ==
  (IsStart("WP") /\ OutOfRange(last.dimVocab, last.writes) = {}) =>
    /\ last.ret /= Null
    /\ Len(Dist(last.ret)) = wp.dimVocab
    /\ \A i \in 0..(wp.dimVocab - 1) :
         Dist(last.ret)[i + 1] = IF i \in {0, EOS} THEN 0 ELSE WordPenaltyFill
    /\ \A st \in 1..Len(hstates) :
         born[st].scorer = "WP" => Dist(st) = Dist(last.ret)

\* C3: step of either heuristic scorer returns the state it was given,
\* whose distribution is still the one startState produced, and the call
\* changes no state object, no scorer field and nothing in the graph.
C3_StepReturnsItsArgument ==
  last.op = "step" =>
    /\ last.ret = last.state
    /\ Dist(last.ret) = born[last.state].dist

C3_StepChangesNothing ==
  (last'.op = "step" /\ last' /= last) =>
     UNCHANGED <<wp, uwp, nodes, hstates, activeNs>>

C3_StepPositionInvariant ==
  [](C3_StepReturnsItsArgument) /\ [][C3_StepChangesNothing]_vars

\* MaxSteps consecutive steps of the coverage scorer on a state that an
\* earlier batch produced, after a later batch replaced penalties_.
C3_Witness ==
  /\ last.op = "step" /\ last.scorer = "UWP" /\ last.n = MaxSteps
  /\ born[last.state].scorer = "UWP"
  /\ uwp.penalties /= Null
  /\ nodes[uwp.penalties].val /= Dist(last.state)

\* C8: breakDown(i) of a WordPenaltyState equals getDistribution()[i %
\* dimVocab] for every i >= 0, the index read lies inside the dimVocab
\* sized distribution, and the distribution is left as it was made.
C8_BreakDownModulo ==
  last.op = "breakDown" =>
    LET st == last.state
        d == hstates[st].dimVocab IN
      /\ last.idx \in 0..(d - 1)
      /\ last.idx < Len(Dist(st))
      /\ ~crashed
      /\ last.ret = Dist(st)[(last.i % d) + 1]
      /\ Dist(st) = born[st].dist

\* breakDown of an index past the vocabulary dimension (3 or more) that
\* lands on a freed id, other than id 0, of a coverage distribution.
C8_Witness ==
  /\ last.op = "breakDown"
  /\ hstates[last.state].dimVocab > EOS
  /\ last.i >= hstates[last.state].dimVocab
  /\ last.idx > 0
  /\ born[last.state].scorer = "UWP"
  /\ last.ret = 0

\* C10: every index the two startState bodies store to lies in
\* [0, dimVocab), for every dimVocab >= 1 and every batch.
C10_StoresInBounds ==
  last.op = "startState" =>
    \A k \in 1..Len(last.writes) : last.writes[k] \in 0..(last.dimVocab - 1)

----------------------------------------------------------------------------
(* ScorerWrapper on a shared ExpressionGraph, one call at a time *)

NumScorers == 2   \* neural scorers sharing the graph
MaxBeam == 3      \* sentences per batch and candidates per step
MaxDStates == 2   \* DecoderState objects allocated in one run
MaxSlots == 6     \* beam slots allocated in one run, over all states

Emb == {5, 7, 9}  \* embedding (vocabulary) ids the driver feeds

Digit(d) ==
  CASE d = 0 -> "0" [] d = 1 -> "1" [] d = 2 -> "2" [] d = 3 -> "3"
    [] d = 4 -> "4" [] d = 5 -> "5" [] d = 6 -> "6" [] d = 7 -> "7"
    [] d = 8 -> "8" [] d = 9 -> "9"

\* std::to_string(int) for i >= 0
RECURSIVE to_string(_)
to_string(i) ==
  IF i < 10 THEN Digit(i) ELSE to_string(i \div 10) \o Digit(i % 10)

\* std::string fname = "F" + std::to_string(i)
FeatureName(i) == "F" \o to_string(i)

ModelFile(i) == "m" \o to_string(i)

\* The ensemble's neural scorers, as createScorers names them; scorer k
\* wraps model k and loads model file k.
WScorer(k) == [name |-> FeatureName(k - 1), weight |-> DefaultWeight,
               encdec |-> k, fname |-> ModelFile(k)]

\* The namespace left active by a method that skips switchParams in clear.
Switched_notInClear(op, self, ns) == IF op = "clear" THEN ns ELSE self.name

\* graph->switchParams(getName()) at the head of init, clear, startState
\* and step: the namespace active when the model is then called.
Switched(op, self, ns) == self.name

RECURSIVE Reverse(_)
Reverse(q) == IF q = <<>> THEN <<>> ELSE Append(Reverse(Tail(q)), Head(q))

\* The index lists step hands on, with the hypothesis indices back to front.
StepArgs_reversedHyp(H, E) == [hyp |-> Reverse(H), emb |-> E]

\* The index lists step hands to the model: hypIndices, embIndices.
StepArgs(H, E) == [hyp |-> H, emb |-> E]

\* EncoderDecoder::startState(graph, batch): one beam slot per sentence,
\* computed with the parameters of the active namespace.
EncDec_startState(model, ns, sentences) ==
  [model |-> model, ns |-> ns,
   slots |-> [j \in 1..sentences |-> [sent |-> j, hist |-> <<>>]]]

\* EncoderDecoder::step(graph, state, hypIndices, embIndices): candidate k
\* gathers slot hypIndices[k] of the prior state and is fed embedding
\* embIndices[k]; computed with the parameters of the active namespace.
EncDec_step(model, ns, prior, hyp, emb) ==
  [model |-> model, ns |-> ns,
   slots |-> [k \in 1..Len(hyp) |->
                [sent |-> prior.slots[hyp[k] + 1].sent,
                 hist |-> Append(prior.slots[hyp[k] + 1].hist, emb[k])]]]

RECURSIVE SlotsIn(_)
SlotsIn(heap) ==
  IF heap = <<>> THEN 0 ELSE Len(Head(heap).slots) + SlotsIn(Tail(heap))

WrapStart ==
  /\ activeNs = "default"
  /\ dstates = <<>>
  /\ wstates = <<>>
  /\ pc = <<>>

IdleHeur ==
  /\ wp = [name |-> "WP"]
  /\ uwp = [name |-> "UWP"]
  /\ nodes = <<>>
  /\ hstates = <<>>
  /\ born = <<>>

InitWrap ==
  /\ WrapStart
  /\ IdleHeur
  /\ IdleFactory
  /\ crashed = FALSE
  /\ last = NoCall

\* ScorerWrapper::init
ScorerWrapper_init(k) ==
  LET self == WScorer(k)
      ns == Switched("init", self, activeNs) IN
    /\ activeNs' = ns
    /\ last' = [op |-> "init", scorer |-> k,
                calls |-> <<[op |-> "load", ns |-> ns, fname |-> self.fname]>>]
    /\ UNCHANGED <<dstates, wstates, pc, heurVars, factVars, crashed>>

\* ScorerWrapper::clear
ScorerWrapper_clear(k) ==
  LET self == WScorer(k)
      ns == Switched("clear", self, activeNs) IN
    /\ activeNs' = ns
    /\ last' = [op |-> "clear", scorer |-> k,
                calls |-> <<[op |-> "clear", ns |-> ns]>>]
    /\ UNCHANGED <<dstates, wstates, pc, heurVars, factVars, crashed>>

\* ScorerWrapper::startState
ScorerWrapper_startState(k, sentences) ==
  LET self == WScorer(k)
      ns == Switched("startState", self, activeNs) IN
    /\ Len(dstates) < MaxDStates
    /\ SlotsIn(dstates) + sentences <= MaxSlots
    /\ activeNs' = ns
    /\ dstates' = Append(dstates, EncDec_startState(self.encdec, ns, sentences))
    /\ wstates' = Append(wstates, [state |-> Len(dstates) + 1])
    /\ last' = [op |-> "startState", scorer |-> k, ret |-> Len(wstates) + 1,
                calls |-> <<[op |-> "startState", ns |-> ns,
                             sentences |-> sentences]>>]
    /\ UNCHANGED <<pc, heurVars, factVars, crashed>>

\* ScorerWrapper::step on a wrapper state of this scorer's model, with
\* index lists that are valid for it.
ScorerWrapper_step(k, state, H, E) ==
  LET self == WScorer(k)
      ns == Switched("step", self, activeNs) IN
    /\ state \in 1..Len(wstates)
    /\ LET wrappedState == wstates[state].state
           args == StepArgs(H, E) IN
         /\ dstates[wrappedState].model = self.encdec
         /\ Len(H) = Len(E)
         /\ \A j \in 1..Len(H) : H[j] < Len(dstates[wrappedState].slots)
         /\ Len(dstates) < MaxDStates
         /\ SlotsIn(dstates) + Len(H) <= MaxSlots
         /\ activeNs' = ns
         /\ dstates' = Append(dstates,
                EncDec_step(self.encdec, ns, dstates[wrappedState],
                            args.hyp, args.emb))
         /\ wstates' = Append(wstates, [state |-> Len(dstates) + 1])
         /\ last' = [op |-> "step", scorer |-> k, state |-> state, H |-> H, E |-> E,
                     was |-> <<wstates[state], dstates[wrappedState]>>,
                     ret |-> Len(wstates) + 1,
                     calls |-> <<[op |-> "step", ns |-> ns,
                                  state |-> wrappedState,
                                  hyp |-> args.hyp, emb |-> args.emb]>>]
    /\ UNCHANGED <<pc, heurVars, factVars, crashed>>

\* The driver's index lists for a step of scorer k on a state of its
\* model: n candidates, each naming a slot of the state and an embedding.
StepInputs(k, state) ==
  IF /\ state \in 1..Len(wstates)
     /\ Len(dstates) < MaxDStates
     /\ dstates[wstates[state].state].model = WScorer(k).encdec
  THEN UNION {[1..n -> 0..(Len(dstates[wstates[state].state].slots) - 1)]
                \X [1..n -> Emb] :
              n \in 1..Min(MaxBeam, MaxSlots - SlotsIn(dstates))}
  ELSE {}

NextWrap ==
  \/ \E k \in 1..NumScorers : ScorerWrapper_init(k)
  \/ \E k \in 1..NumScorers : ScorerWrapper_clear(k)
  \/ \E k \in 1..NumScorers, n \in 1..MaxBeam : ScorerWrapper_startState(k, n)
  \/ \E k \in 1..NumScorers, st \in 1..MaxDStates :
       \E he \in StepInputs(k, st) : ScorerWrapper_step(k, st, he[1], he[2])

SpecWrap == InitWrap /\ [][NextWrap]_vars

----------------------------------------------------------------------------
(* Properties of the neural scorers called one at a time, under SpecWrap *)

\* C4: ScorerWrapper::step calls the model's step exactly once, with the
\* model state wrapped in s and with H and E as given, returns a new
\* wrapper state holding the model's result and leaves s as it was; the
\* result has len(H) candidates, candidate k extending slot H[k] of s and
\* fed embedding E[k].
C4_StepDelegatesReordering ==
  last.op = "step" =>
    LET s == last.state
        prior == dstates[wstates[s].state]
        res == dstates[wstates[last.ret].state] IN
      /\ Len(last.calls) = 1
      /\ last.calls[1].op = "step"
      /\ last.calls[1].state = wstates[s].state
      /\ last.calls[1].hyp = last.H
      /\ last.calls[1].emb = last.E
      /\ last.ret /= s
      /\ wstates[last.ret].state = Len(dstates)
      /\ wstates[last.ret].state /= wstates[s].state
      /\ <<wstates[s], prior>> = last.was
      /\ Len(res.slots) = Len(last.H)
      /\ \A c \in 1..Len(last.H) :
           /\ res.slots[c].sent = prior.slots[last.H[c] + 1].sent
           /\ res.slots[c].hist =
                prior.slots[last.H[c] + 1].hist \o <<last.E[c]>>

\* The step H = [0,0,2], E = [5,7,9] on a state over a beam of three.
C4_Witness ==
  /\ last.op = "step"
  /\ last.H = <<0, 0, 2>>
  /\ last.E = <<5, 7, 9>>
  /\ Len(dstates[wstates[last.state].state].slots) = 3
  /\ dstates[wstates[last.ret].state].slots =
       <<[sent |-> 1, hist |-> <<5>>], [sent |-> 1, hist |-> <<7>>],
         [sent |-> 3, hist |-> <<9>>]>>

\* C5: in any sequence of init, clear, startState and step calls on
\* scorers with pairwise distinct names sharing the graph, every
\* delegated model operation runs while the active namespace is the name
\* of the scorer that issued the call.
C5_NamespaceIsolation ==
  /\ \A j, k \in 1..NumScorers : j /= k => WScorer(j).name /= WScorer(k).name
  /\ last.op \in {"init", "clear", "startState", "step"} =>
       /\ last.calls /= <<>>
       /\ \A c \in 1..Len(last.calls) :
            last.calls[c].ns = WScorer(last.scorer).name
       /\ activeNs = WScorer(last.scorer).name

\* A clear of one scorer issued after startState calls of two scorers, the
\* later of them made by another scorer under its own namespace.
C5_Witness ==
  /\ last.op = "clear"
  /\ Len(dstates) = MaxDStates
  /\ dstates[1].model /= dstates[Len(dstates)].model
  /\ dstates[Len(dstates)].model /= WScorer(last.scorer).encdec
  /\ dstates[Len(dstates)].ns /= WScorer(last.scorer).name

----------------------------------------------------------------------------
(* The step calls of one beam-search iteration run by parallel threads *)

\* The state the driver is in when it hands the iteration's step calls to
\* the executor: every scorer has started its state for one batch, one
\* call after the other, and the index lists of the iteration are chosen.
RECURSIVE StartedStates(_, _)
StartedStates(k, sentences) ==
  IF k = 0 THEN <<>>
  ELSE Append(StartedStates(k - 1, sentences),
              EncDec_startState(WScorer(k).encdec,
                                Switched("startState", WScorer(k), "default"),
                                sentences))

InitPar ==
  /\ \E sentences \in 1..MaxBeam :
       /\ dstates = StartedStates(NumScorers, sentences)
       /\ \E n \in 1..MaxBeam :
            \E H \in [1..n -> 0..(sentences - 1)], E \in [1..n -> Emb] :
              last = [op |-> "iteration", H |-> H, E |-> E]
  /\ wstates = [k \in 1..NumScorers |-> [state |-> k]]
  /\ activeNs = Switched("startState", WScorer(NumScorers), "default")
  /\ pc = [k \in 1..NumScorers |-> [at |-> "idle"]]
  /\ IdleHeur
  /\ IdleFactory
  /\ crashed = FALSE

\* Thread t, first statement of ScorerWrapper::step:
\* graph->switchParams(getName())
Par_switchParams(t) ==
  /\ pc[t].at = "idle"
  /\ activeNs' = Switched("step", WScorer(t), activeNs)
  /\ pc' = [pc EXCEPT ![t] = [at |-> "switched"]]
  /\ UNCHANGED <<dstates, wstates, heurVars, factVars, crashed, last>>

\* Thread t, rest of ScorerWrapper::step: the model's step runs on the
\* graph as it is now, and its result is wrapped and returned.
Par_modelStep(t) ==
  /\ pc[t].at = "switched"
  /\ LET self == WScorer(t)
         wrappedState == wstates[t].state
         args == StepArgs(last.H, last.E) IN
       /\ dstates' = Append(dstates,
              EncDec_step(self.encdec, activeNs, dstates[wrappedState],
                          args.hyp, args.emb))
       /\ wstates' = Append(wstates, [state |-> Len(dstates) + 1])
       /\ pc' = [pc EXCEPT ![t] = [at |-> "done", ns |-> activeNs,
                                   ret |-> Len(wstates) + 1]]
  /\ UNCHANGED <<activeNs, heurVars, factVars, crashed, last>>

NextPar ==
  \/ \E t \in 1..NumScorers : Par_switchParams(t)
  \/ \E t \in 1..NumScorers : Par_modelStep(t)

SpecPar == InitPar /\ [][NextPar]_vars

\* What scorer t's step returns when the steps run one after another.
SequentialStep(t) ==
  EncDec_step(WScorer(t).encdec, WScorer(t).name, dstates[wstates[t].state],
              last.H, last.E)

\* C9: when the step calls of the scorers sharing the graph run in
\* parallel, in every interleaving each scorer's model step runs while
\* the active namespace is that scorer's own name, and returns the state
\* it returns when the steps run one after another.
C9_ParallelStepIsolation ==
  \A t \in 1..NumScorers :
    pc[t].at = "done" =>
      /\ pc[t].ns = WScorer(t).name
      /\ dstates[wstates[pc[t].ret].state] = SequentialStep(t)

----------------------------------------------------------------------------
(* createScorers / scorerByType *)

MaxModels == 2    \* entries of the "models" list

ModelFiles == {ModelFile(k) : k \in 1..NumScorers}
WeightVals == {3, 7}                    \* 0.3 and 0.7
\* A read of weights[i] past the end of the vector yields whatever the
\* heap holds there: any float.
StrayWeights == StrayFloats
Types == {"amun", "lm"}

\* The configurations: a model list, the "dim-vocabs" list (it may be
\* empty), an optional weight list, a type, the number of configured
\* inputs (0: no "input" option), and per model file the type its
\* embedded settings name ("none": the file has no settings).
Configs ==
  [models : SeqsUpTo(ModelFiles, MaxModels),
   dimVocabs : SeqsUpTo({MaxDim}, 2),
   hasWeights : BOOLEAN,
   weights : SeqsUpTo(WeightVals, MaxModels + 1),
   type : Types,
   inputs : {0, 2},
   settings : [ModelFiles -> {"none", "s2s"}]]

\* Config::loadModelParameters(model) throws std::runtime_error
LoadThrows(cfg, model) == cfg.settings[model] = "none"

\* modelOptions after the try block: the copy of the options, overridden
\* by the model's embedded settings when they could be read.
ModelOptions(cfg, model) ==
  IF LoadThrows(cfg, model) THEN cfg
  ELSE [cfg EXCEPT !.type = cfg.settings[model]]

\* scorerByType
scorerByType(fname, weight, model, cfg) ==
  LET type == cfg.type
      index == IF type = "lm" /\ cfg.inputs > 0 THEN cfg.inputs ELSE Null IN
    [name |-> fname, weight |-> weight, fname |-> model,
     encdec |-> [type |-> type, inference |-> TRUE, index |-> index]]

\* std::vector<float> weights in createScorers
createScorers_weights(cfg) ==
  IF cfg.hasWeights THEN cfg.weights
  ELSE Fill(Len(cfg.models), DefaultWeight)

\* int dimVocab = options->get<std::vector<int>>("dim-vocabs").back();
\* back() of an empty vector is undefined behaviour: the process dies or
\* an int from outside the vector is read.  The local is not used again.
createScorers_dimVocabOutcomes(cfg) ==
  IF cfg.dimVocabs = <<>> THEN {"died", "stray"} ELSE {"ok"}

\* weights[i] as handed to scorerByType
createScorers_weight(weights, i) == weights[i + 1]

\* The loop of createScorers from index i on; stray[i] is what a read of
\* weights[i] past the end of the vector yields.
RECURSIVE createScorers_loop(_, _, _)
createScorers_loop(cfg, i, stray) ==
  IF i >= Len(cfg.models) THEN <<>>
  ELSE LET model == cfg.models[i + 1]
           weights == createScorers_weights(cfg)
           w == IF i < Len(weights) THEN createScorers_weight(weights, i)
                ELSE stray[i] IN
         <<scorerByType(FeatureName(i), w, model, ModelOptions(cfg, model))>>
           \o createScorers_loop(cfg, i + 1, stray)

\* The models for which "No model settings found in model file" is logged.
RECURSIVE createScorers_warnings(_, _)
createScorers_warnings(cfg, i) ==
  IF i >= Len(cfg.models) THEN <<>>
  ELSE (IF LoadThrows(cfg, cfg.models[i + 1]) THEN <<cfg.models[i + 1]>>
        ELSE <<>>) \o createScorers_warnings(cfg, i + 1)

\* Loop indices at which weights[i] is read past the end of the vector.
createScorers_strayReads(cfg) ==
  {i \in 0..(Len(cfg.models) - 1) : i >= Len(createScorers_weights(cfg))}

InitFactory ==
  /\ config \in Configs
  /\ scorers = <<>>
  /\ warnings = <<>>
  /\ IdleHeur
  /\ IdleWrap
  /\ crashed = FALSE
  /\ last = NoCall

\* The part of a createScorers call that ran before the process died at
\* the first stray read: the warnings logged for models 0 .. i.
WarningsUpTo(cfg, i) ==
  SubSeq(createScorers_warnings(cfg, 0), 1,
         Len(createScorers_warnings(cfg, 0))
           - Len(createScorers_warnings(cfg, i + 1)))

createScorers ==
  /\ ~crashed
  /\ \E back \in createScorers_dimVocabOutcomes(config) :
       LET reads == createScorers_strayReads(config) IN
         IF back = "died"
         THEN /\ crashed' = TRUE
              /\ scorers' = scorers
              /\ warnings' = warnings
              /\ last' = [op |-> "createScorers", ret |-> "died",
                          back |-> back, strayReads |-> {}]
         ELSE IF reads = {}
         THEN /\ scorers' = createScorers_loop(config, 0, <<>>)
              /\ warnings' = createScorers_warnings(config, 0)
              /\ last' = [op |-> "createScorers", ret |-> "returned",
                          back |-> back, strayReads |-> reads]
              /\ crashed' = crashed
         ELSE \/ /\ crashed' = TRUE
                 /\ scorers' = scorers
                 /\ warnings' = WarningsUpTo(config, CHOOSE i \in reads :
                                                      \A j \in reads : i <= j)
                 /\ last' = [op |-> "createScorers", ret |-> "died",
                             back |-> back, strayReads |-> reads]
              \/ /\ \E stray \in [reads -> StrayWeights] :
                      scorers' = createScorers_loop(config, 0, stray)
                 /\ warnings' = createScorers_warnings(config, 0)
                 /\ last' = [op |-> "createScorers", ret |-> "returned",
                             back |-> back, strayReads |-> reads]
                 /\ crashed' = crashed
  /\ UNCHANGED <<config, heurVars, wrapVars, pc>>

NextFactory == createScorers

SpecFactory == InitFactory /\ [][NextFactory]_vars

WeightsMatch(cfg) == ~cfg.hasWeights \/ Len(cfg.weights) = Len(cfg.models)

\* C6: for a model list of length n >= 0 and an optional weight list of
\* the same length, createScorers returns n scorers in model order;
\* scorer i is named "F" followed by i, is bound to model file i and
\* weighs weights[i], or 1.0 without configured weights; names are
\* pairwise distinct; a model whose settings cannot be loaded is logged
\* and its scorer, and every name and weight, are as without the failure.
C6_EnsembleConstruction ==
  (last.op = "createScorers" /\ WeightsMatch(config)) =>
    /\ ~crashed
    /\ last.ret = "returned"
    /\ Len(scorers) = Len(config.models)
    /\ \A i \in 0..(Len(config.models) - 1) :
         /\ scorers[i + 1].name = "F" \o ToString(i)
         /\ scorers[i + 1].fname = config.models[i + 1]
         /\ scorers[i + 1].weight =
              IF config.hasWeights THEN config.weights[i + 1] ELSE DefaultWeight
    /\ \A i, j \in 1..Len(scorers) :
         i /= j => scorers[i].name /= scorers[j].name
    /\ Range(warnings) =
         {m \in Range(config.models) : config.settings[m] = "none"}

\* C6 for the configurations whose "dim-vocabs" list is not empty.
C6_EnsembleConstructionWithDimVocabs ==
  (last.op = "createScorers" /\ WeightsMatch(config)
     /\ config.dimVocabs /= <<>>) =>
    /\ ~crashed
    /\ last.ret = "returned"
    /\ Len(scorers) = Len(config.models)
    /\ \A i \in 0..(Len(config.models) - 1) :
         /\ scorers[i + 1].name = "F" \o ToString(i)
         /\ scorers[i + 1].fname = config.models[i + 1]
         /\ scorers[i + 1].weight =
              IF config.hasWeights THEN config.weights[i + 1] ELSE DefaultWeight
    /\ Range(warnings) =
         {m \in Range(config.models) : config.settings[m] = "none"}

\* C7: with a weight list and a model list of different lengths,
\* createScorers raises a ConfigurationError before any scorer is built,
\* reads no weight outside the weight list and returns no scorer list.
C7_LengthMismatchIsRejected ==
  (last.op = "createScorers" /\ ~WeightsMatch(config)) =>
    /\ last.ret = "ConfigurationError"
    /\ last.strayReads = {}
    /\ scorers = <<>>

====
